---- MODULE Spec2Model ----
(***************************************************************************)
(* Model of stream/test.py: Stream.parse_playlist (variant selection) and  *)
(* Playlist.watch_segments (the segment watch loop with sequence tracking  *)
(* and bounded retry), with Playlist._parse_segment_seq.                   *)
(*                                                                         *)
(* Strings the code takes apart (segment URIs, variant names) are tuples   *)
(* of one-character strings.  Durations are in tenths of a second.         *)
(***************************************************************************)
EXTENDS Integers, Sequences, FiniteSets, TLC

VARIABLES
    pc,             \* position of watch_segments in its loop
    media_playlist, \* media_playlist.segments of the last successful Poll (segment URIs)
    i,              \* index of the segment the for loop is at (1-based)
    last_seq,       \* Playlist.last_seq
    attempt,        \* loop variable of "for attempt in range(3)"
    retry_waits,    \* history: time.sleep(0.6) calls completed for the current segment
    fetch_fails,    \* history: attempts for the current segment whose fetch raised
    delivered,      \* history: the handler invocations, in order
    cycle_base,     \* history: Len(delivered) when the current cycle's Poll ended
    poll_text,      \* history: how the current cycle's Poll ended
    abandoned,      \* history: sequence numbers whose last attempt failed
    faults,         \* history: failures injected so far (poll, fetch, handler)
    signalled,      \* history: a KeyboardInterrupt has been sent
    master,         \* input of parse_playlist: M3U8(m3u8_content) as parsed
    resolution,     \* input of parse_playlist
    framerate,      \* input of parse_playlist
    playlist,       \* what parse_playlist returned
    hls_source,     \* Stream.hls_source
    interval,       \* argument of watch_segments
    seq_uri,        \* argument of a call of _parse_segment_seq
    seq_result,     \* what that call returned
    playlists       \* two more Playlist objects, each with its own watch_segments loop

watch_vars == <<pc, media_playlist, i, last_seq, attempt, retry_waits, fetch_fails,
                delivered, cycle_base, poll_text, abandoned, faults, signalled>>
select_vars == <<master, resolution, framerate, playlist, hls_source>>
other_vars == <<interval, seq_uri, seq_result, playlists>>
vars == <<pc, media_playlist, i, last_seq, attempt, retry_waits, fetch_fails,
          delivered, cycle_base, poll_text, abandoned, faults, signalled,
          master, resolution, framerate, playlist, hls_source,
          interval, seq_uri, seq_result, playlists>>

(***************************************************************************)
(* Bounds of the model.                                                    *)
(***************************************************************************)
MaxSeq == 2       \* highest sequence number in an arbitrary manifest
MaxLen == 2       \* most segments in an arbitrary manifest
MaxGrow == 3      \* most segments the growing manifest comes to list
MaxFaults == 3    \* most failures (poll, fetch, handler) in one run
MaxVariants == 3  \* most variant playlists in a master manifest
MaxUriLen == 4    \* longest enumerated argument of _parse_segment_seq
MaxPairLen == 2   \* most segments in a manifest of the two concurrent sessions
MaxPairFaults == 3  \* most failures (poll, fetch, handler) of one of them

Max(S) == CHOOSE x \in S : \A y \in S : y <= x

Min(S) == CHOOSE x \in S : \A y \in S : x <= y

(***************************************************************************)
(* Strings as tuples of characters.                                        *)
(***************************************************************************)
Digits == <<"0", "1", "2", "3", "4", "5", "6", "7", "8", "9">>

IsDigit(c) == \E d \in 1..10 : Digits[d] = c

DigitVal(c) == (CHOOSE d \in 1..10 : Digits[d] = c) - 1

RECURSIVE IntToStr(_)
IntToStr(n) == IF n < 10 THEN <<Digits[n + 1]>>
               ELSE IntToStr(n \div 10) \o <<Digits[(n % 10) + 1]>>

RECURSIVE StrToInt(_)
StrToInt(s) == IF Len(s) = 0 THEN 0
               ELSE 10 * StrToInt(SubSeq(s, 1, Len(s) - 1)) + DigitVal(s[Len(s)])

\* int(s) succeeds: over the characters used here (letters, digits, "." and
\* no "-", which str.split removed) int() accepts exactly the non-empty
\* all-digit strings
IntParses(s) == Len(s) > 0 /\ \A k \in 1..Len(s) : IsDigit(s[k])

\* str.split(sep) for a one-character separator: the pieces between the
\* separators, empty pieces included
RECURSIVE SplitFrom(_, _, _, _)
SplitFrom(s, sep, k, cur) ==
    IF k > Len(s) THEN <<cur>>
    ELSE IF s[k] = sep THEN <<cur>> \o SplitFrom(s, sep, k + 1, <<>>)
    ELSE SplitFrom(s, sep, k + 1, Append(cur, s[k]))

Split(s, sep) == SplitFrom(s, sep, 1, <<>>)

(***************************************************************************)
(* Playlist._parse_segment_seq                                             *)
(***************************************************************************)
\* mutant: the last piece is taken instead of the second
_parse_segment_seq_last(uri) ==
    LET parts == Split(uri, "-") IN
    IF Len(parts) > 1
    THEN LET tok == Split(parts[Len(parts)], ".")[1] IN
         IF IntParses(tok) THEN StrToInt(tok) ELSE -1
    ELSE -1

\* lines 173-183
_parse_segment_seq(uri) ==
    LET parts == Split(uri, "-") IN
    IF Len(parts) > 1
    THEN LET tok == Split(parts[2], ".")[1] IN
         IF IntParses(tok) THEN StrToInt(tok) ELSE -1
    ELSE -1

\* "segment-<n>.ts"
SegmentUri(n) == <<"s", "e", "g", "m", "e", "n", "t", "-">> \o IntToStr(n) \o <<".", "t", "s">>

ChunkUri == <<"c", "h", "u", "n", "k", ".", "t", "s">>

\* the segment URIs an arbitrary media manifest may list
WatchUris == {SegmentUri(n) : n \in 1..MaxSeq} \cup {ChunkUri}

\* the segment URIs the growing media manifest comes to list
GrowUris == {SegmentUri(n) : n \in 1..MaxGrow}

\* _parse_segment_seq of every URI a manifest may list, computed once
segment_seq == [u \in WatchUris \cup GrowUris |-> _parse_segment_seq(u)]

RECURSIVE SeqsUpTo(_, _)
SeqsUpTo(S, n) == IF n = 0 THEN {<<>>}
                  ELSE LET shorter == SeqsUpTo(S, n - 1) IN
                       shorter \cup {Append(s, x) : s \in {t \in shorter : Len(t) = n - 1}, x \in S}

\* any media manifest: the segments in any order, repeated or unparsable
Manifests == SeqsUpTo(WatchUris, MaxLen)

IsPrefix(s, t) == Len(s) <= Len(t) /\ SubSeq(t, 1, Len(s)) = s

\* a manifest whose sequence numbers increase strictly
Increasing(m) == \A k \in 1..Len(m) :
                    /\ segment_seq[m[k]] # -1
                    /\ k > 1 => segment_seq[m[k - 1]] < segment_seq[m[k]]

GrowingManifests == {m \in SeqsUpTo(GrowUris, MaxGrow) : Increasing(m)}

\* the manifests that extend the last fetched one with higher sequence numbers
Extensions(m) == {n \in GrowingManifests : IsPrefix(m, n)}

(***************************************************************************)
(* Playlist.watch_segments                                                 *)
(***************************************************************************)
RetryInterval == 6
BackoffInterval == 50

\* mutant: the comparison of line 150 off by one
IsNew_lt(seq, last) == ~(seq = -1 \/ seq < last)

\* line 150, negated: the segment is new
IsNew(seq, last) == ~(seq = -1 \/ seq <= last)

\* mutant: one attempt more before the exception is re-raised
IsLastAttempt_3(a) == a = 3

\* line 164: the attempt after which the exception is re-raised
IsLastAttempt(a) == a = 2

Seg == media_playlist[i]

WatchInit ==
    /\ pc = "poll"
    /\ media_playlist = <<>>
    /\ i = 1
    /\ last_seq = -1
    /\ attempt = 0
    /\ retry_waits = 0
    /\ fetch_fails = 0
    /\ delivered = <<>>
    /\ cycle_base = 0
    /\ poll_text = "none"
    /\ abandoned = {}
    /\ faults = 0
    /\ signalled = FALSE

\* lines 140-142 succeed: the manifest m was fetched and parsed
PollFrom(ms) ==
    /\ pc = "poll"
    /\ \E m \in ms : media_playlist' = m
    /\ i' = 1
    /\ cycle_base' = Len(delivered)
    /\ poll_text' = "media"
    /\ pc' = "segment"
    /\ UNCHANGED <<last_seq, attempt, retry_waits, fetch_fails, delivered, abandoned, faults, signalled>>

Poll == PollFrom(Manifests)

PollGrowing == PollFrom(Extensions(media_playlist))

\* line 142 returns for a text that is not a media manifest (garbage, an
\* error page, a master manifest): the m3u8 library skips the lines it does
\* not know and M3U8(resp.text) has no segments
PollInvalid ==
    /\ pc = "poll"
    /\ media_playlist' = <<>>
    /\ i' = 1
    /\ cycle_base' = Len(delivered)
    /\ poll_text' = "invalid"
    /\ pc' = "segment"
    /\ UNCHANGED <<last_seq, attempt, retry_waits, fetch_fails, delivered, abandoned, faults, signalled>>

\* mutant: after a failed Poll the loop waits as after a cycle without error
PollFail_sleep ==
    /\ pc = "poll"
    /\ faults < MaxFaults
    /\ faults' = faults + 1
    /\ cycle_base' = Len(delivered)
    /\ poll_text' = "raise"
    /\ pc' = "sleep"
    /\ UNCHANGED <<media_playlist, i, last_seq, attempt, retry_waits, fetch_fails, delivered, abandoned, signalled>>

\* lines 140-142 raise (transport error, HTTP status, M3U8 parse error):
\* caught at line 169
PollFail ==
    /\ pc = "poll"
    /\ faults < MaxFaults
    /\ faults' = faults + 1
    /\ cycle_base' = Len(delivered)
    /\ poll_text' = "raise"
    /\ pc' = "backoff"
    /\ UNCHANGED <<media_playlist, i, last_seq, attempt, retry_waits, fetch_fails, delivered, abandoned, signalled>>

\* line 144: the for loop takes its next segment and calls
\* _parse_segment_seq, or is exhausted and falls to line 168
NextSegment ==
    /\ pc = "segment"
    /\ pc' = IF i > Len(media_playlist) THEN "sleep" ELSE "parse_seq"
    /\ UNCHANGED <<media_playlist, i, last_seq, attempt, retry_waits, fetch_fails, delivered, cycle_base, poll_text, abandoned, faults, signalled>>

\* mutant: line 153 is missing, last_seq is never advanced
Diff_keep_last ==
    /\ pc = "parse_seq"
    /\ LET seq == segment_seq[Seg] IN
       IF IsNew(seq, last_seq)
       THEN /\ last_seq' = last_seq
            /\ attempt' = 0
            /\ retry_waits' = 0
            /\ fetch_fails' = 0
            /\ pc' = "fetch"
            /\ i' = i
       ELSE /\ i' = i + 1
            /\ pc' = "segment"
            /\ UNCHANGED <<last_seq, attempt, retry_waits, fetch_fails>>
    /\ UNCHANGED <<media_playlist, delivered, cycle_base, poll_text, abandoned, faults, signalled>>

\* mutant: a new segment takes last_seq to the highest sequence number of
\* the manifest
Diff_advance_all ==
    /\ pc = "parse_seq"
    /\ LET seq == segment_seq[Seg] IN
       IF IsNew(seq, last_seq)
       THEN /\ last_seq' = Max({segment_seq[media_playlist[k]] : k \in DOMAIN media_playlist})
            /\ attempt' = 0
            /\ retry_waits' = 0
            /\ fetch_fails' = 0
            /\ pc' = "fetch"
            /\ i' = i
       ELSE /\ i' = i + 1
            /\ pc' = "segment"
            /\ UNCHANGED <<last_seq, attempt, retry_waits, fetch_fails>>
    /\ UNCHANGED <<media_playlist, delivered, cycle_base, poll_text, abandoned, faults, signalled>>

\* lines 149-153: _parse_segment_seq returns; skip or mark as new
Diff ==
    /\ pc = "parse_seq"
    /\ LET seq == segment_seq[Seg] IN
       IF IsNew(seq, last_seq)
       THEN /\ last_seq' = seq
            /\ attempt' = 0
            /\ retry_waits' = 0
            /\ fetch_fails' = 0
            /\ pc' = "fetch"
            /\ i' = i
       ELSE /\ i' = i + 1
            /\ pc' = "segment"
            /\ UNCHANGED <<last_seq, attempt, retry_waits, fetch_fails>>
    /\ UNCHANGED <<media_playlist, delivered, cycle_base, poll_text, abandoned, faults, signalled>>

\* mutant: after the last attempt the segment is skipped and the cycle goes on
AttemptFailed_skip ==
    /\ faults < MaxFaults
    /\ faults' = faults + 1
    /\ IF IsLastAttempt(attempt)
       THEN /\ pc' = "segment"
            /\ i' = i + 1
            /\ abandoned' = abandoned \cup {last_seq}
       ELSE /\ pc' = "retry_sleep"
            /\ i' = i
            /\ abandoned' = abandoned
    /\ UNCHANGED <<media_playlist, last_seq, attempt, retry_waits, cycle_base, poll_text, signalled>>

\* mutant: when the last attempt fails last_seq is taken back, so that the
\* segment is new again in the next cycle
AttemptFailed_rollback ==
    /\ faults < MaxFaults
    /\ faults' = faults + 1
    /\ IF IsLastAttempt(attempt)
       THEN /\ pc' = "backoff"
            /\ abandoned' = abandoned \cup {last_seq}
            /\ last_seq' = last_seq - 1
       ELSE /\ pc' = "retry_sleep"
            /\ abandoned' = abandoned
            /\ last_seq' = last_seq
    /\ UNCHANGED <<media_playlist, i, attempt, retry_waits, cycle_base, poll_text, signalled>>

\* lines 164-166: an attempt failed; re-raise after the last one, else wait
AttemptFailed ==
    /\ faults < MaxFaults
    /\ faults' = faults + 1
    /\ IF IsLastAttempt(attempt)
       THEN /\ pc' = "backoff"
            /\ abandoned' = abandoned \cup {last_seq}
       ELSE /\ pc' = "retry_sleep"
            /\ abandoned' = abandoned
    /\ UNCHANGED <<media_playlist, i, last_seq, attempt, retry_waits, cycle_base, poll_text, signalled>>

\* lines 158-162: the segment is fetched, the handler returns, break
Deliver ==
    /\ pc = "fetch"
    /\ delivered' = Append(delivered, [seq |-> segment_seq[Seg], attempt |-> attempt, ok |-> TRUE])
    /\ i' = i + 1
    /\ pc' = "segment"
    /\ UNCHANGED <<media_playlist, last_seq, attempt, retry_waits, fetch_fails, cycle_base, poll_text, abandoned, faults, signalled>>

\* lines 159-160 raise: the fetch failed, the handler is not called
FetchFail ==
    /\ pc = "fetch"
    /\ delivered' = delivered
    /\ fetch_fails' = fetch_fails + 1
    /\ AttemptFailed

\* line 161 raises: the handler was called and raised an Exception
HandlerRaise ==
    /\ pc = "fetch"
    /\ delivered' = Append(delivered, [seq |-> segment_seq[Seg], attempt |-> attempt, ok |-> FALSE])
    /\ fetch_fails' = fetch_fails
    /\ AttemptFailed

\* line 166 returns: next attempt
RetrySleep ==
    /\ pc = "retry_sleep"
    /\ attempt' = attempt + 1
    /\ retry_waits' = retry_waits + 1
    /\ pc' = "fetch"
    /\ UNCHANGED <<media_playlist, i, last_seq, fetch_fails, delivered, cycle_base, poll_text, abandoned, faults, signalled>>

\* line 168 returns
Sleep ==
    /\ pc = "sleep"
    /\ pc' = "poll"
    /\ UNCHANGED <<media_playlist, i, last_seq, attempt, retry_waits, fetch_fails, delivered, cycle_base, poll_text, abandoned, faults, signalled>>

\* mutant: after the wait of line 171 the loop also waits at line 168
BackOff_then_sleep ==
    /\ pc = "backoff"
    /\ pc' = "sleep"
    /\ UNCHANGED <<media_playlist, i, last_seq, attempt, retry_waits, fetch_fails, delivered, cycle_base, poll_text, abandoned, faults, signalled>>

\* mutant: the handler of line 169 ends the loop
BackOff_return ==
    /\ pc = "backoff"
    /\ pc' = "stopped"
    /\ UNCHANGED <<media_playlist, i, last_seq, attempt, retry_waits, fetch_fails, delivered, cycle_base, poll_text, abandoned, faults, signalled>>

\* lines 170-171 return
BackOff ==
    /\ pc = "backoff"
    /\ pc' = "poll"
    /\ UNCHANGED <<media_playlist, i, last_seq, attempt, retry_waits, fetch_fails, delivered, cycle_base, poll_text, abandoned, faults, signalled>>

\* KeyboardInterrupt (lines 205-208) raised at the watcher's position.  It
\* is not an Exception, so lines 163 and 169 let it through, but the bare
\* except of _parse_segment_seq (line 181) catches it: the call returns -1
\* and the loop goes on with the next segment
Cancel ==
    /\ pc # "stopped"
    /\ signalled' = TRUE
    /\ \/ /\ pc' = "stopped"
          /\ i' = i
       \/ /\ pc = "parse_seq"
          /\ pc' = "segment"
          /\ i' = i + 1
    /\ UNCHANGED <<media_playlist, last_seq, attempt, retry_waits, fetch_fails, delivered, cycle_base, poll_text, abandoned, faults>>

(***************************************************************************)
(* Stream.parse_playlist                                                   *)
(*                                                                         *)
(* master is M3U8(m3u8_content) as the m3u8 library parsed it: kind        *)
(* "raise" when the constructor raises, "media" when is_variant is false,  *)
(* "variant" otherwise, with master.playlists.  A variant playlist is      *)
(* [res, name, uri]: stream_info.resolution[0] (NoRes when resolution is   *)
(* None), stream_info.name (<<>> for None or "") and uri, which the        *)
(* library never leaves empty.                                             *)
(***************************************************************************)
NoRes == 0

Widths == {640, 1280, 1920}

Names == {<<>>, <<"7", "2", "0", "p", "6", "0">>, <<"3", "6", "0", "p">>}

\* the k-th variant playlist of a master manifest has the k-th URI
VariantUri(k) == <<"v">> \o IntToStr(k) \o <<".", "m", "3", "u", "8">>

VariantsAt(k) == [res : Widths \cup {NoRes}, name : Names, uri : {VariantUri(k)}]

RECURSIVE PlaylistsOfLen(_)
PlaylistsOfLen(n) == IF n = 0 THEN {<<>>}
                     ELSE {Append(ps, v) : ps \in PlaylistsOfLen(n - 1), v \in VariantsAt(n)}

Masters ==
    {[kind |-> "raise", playlists |-> <<>>], [kind |-> "media", playlists |-> <<>>]}
    \cup {[kind |-> "variant", playlists |-> ps] :
             ps \in UNION {PlaylistsOfLen(n) : n \in 0..MaxVariants}}

TargetWidths == {480, 640, 1080, 1920}

TargetRates == {25, 30, 60}

\* "60" in name
Has60(name) == \E k \in 1..(Len(name) - 1) : name[k] = "6" /\ name[k + 1] = "0"

\* lines 85-87
FrameRateOf(v) == IF Len(v.name) > 0 /\ Has60(v.name) THEN 60 ELSE 30

\* dict assignment d[key] = val on a dict kept as its items in insertion
\* order: an existing key keeps its place
DictSet(d, key, val) ==
    IF \E k \in DOMAIN d : d[k][1] = key
    THEN [k \in DOMAIN d |-> IF d[k][1] = key THEN <<key, val>> ELSE d[k]]
    ELSE Append(d, <<key, val>>)

DictKeys(d) == {d[k][1] : k \in DOMAIN d}

DictGet(d, key) == d[CHOOSE k \in DOMAIN d : d[k][1] = key][2]

\* lines 77-92: resolutions after the first n variant playlists, as a
\* function width -> the "framerate" dict of that width
RECURSIVE ResolutionsAfter(_, _)
ResolutionsAfter(ps, n) ==
    IF n = 0 THEN <<>>
    ELSE LET prev == ResolutionsAfter(ps, n - 1)
             v == ps[n]
         IN  IF v.res = NoRes THEN prev
             ELSE LET old == IF v.res \in DOMAIN prev THEN prev[v.res] ELSE <<>>
                  IN  [w \in DOMAIN prev \cup {v.res} |->
                          IF w = v.res THEN DictSet(old, FrameRateOf(v), v.uri) ELSE prev[w]]

Resolutions(m) == ResolutionsAfter(m.playlists, Len(m.playlists))


\* mutant: the best width is chosen whatever the target
SelectWidth_best(res, target) == IF DOMAIN res = {} THEN NoRes ELSE Max(DOMAIN res)

\* mutant: the lowest candidate is chosen
SelectWidth_lowest(res, target) ==
    IF target \in DOMAIN res THEN target
    ELSE LET candidates == {w \in DOMAIN res : w < target}
         IN  IF candidates = {} THEN NoRes ELSE CHOOSE x \in candidates : \A y \in candidates : x <= y

\* lines 95-102: the width of the chosen variant, NoRes for variant = None
SelectWidth(res, target) ==
    IF target \in DOMAIN res THEN target
    ELSE LET candidates == {w \in DOMAIN res : w < target}
         IN  IF candidates = {} THEN NoRes ELSE Max(candidates)

\* mutant: selected_framerate keeps the target in the fallback
SelectFramerate_keep(bucket, target) ==
    IF target \in DictKeys(bucket) THEN <<target, DictGet(bucket, target)>>
    ELSE <<target, bucket[1][2]>>

\* lines 108-112: (selected_framerate, playlist_url)
SelectFramerate(bucket, target) ==
    IF target \in DictKeys(bucket) THEN <<target, DictGet(bucket, target)>>
    ELSE bucket[1]

None == [kind |-> "None"]

\* str.rfind(sub): the highest index, counted from 0, at which sub occurs
\* in s, and -1 when it occurs nowhere
rfind(s, sub) ==
    LET hits == {k \in 1..Len(s) : k + Len(sub) - 1 <= Len(s)
                                    /\ SubSeq(s, k, k + Len(sub) - 1) = sub} IN
    IF hits = {} THEN -1 ELSE Max(hits) - 1

\* the slice s[:n]: the first n characters, and for a negative n all but
\* the last -n characters
SliceTo(s, n) ==
    IF n >= 0 THEN SubSeq(s, 1, IF n < Len(s) THEN n ELSE Len(s))
    ELSE SubSeq(s, 1, IF Len(s) + n > 0 THEN Len(s) + n ELSE 0)

\* the literal "playlist.m3u8" of line 114
PlaylistM3u8 == <<"p", "l", "a", "y", "l", "i", "s", "t", ".", "m", "3", "u", "8">>

\* the literal "http://"
HttpScheme == <<"h", "t", "t", "p", ":", "/", "/">>

\* urllib.parse.urljoin(base, url) for an http base and a url that is a
\* relative path without scheme, leading "/" or dot segments: the query of
\* base and what follows the last "/" of its path are dropped
urljoin(base, url) ==
    LET q == {k \in 1..Len(base) : base[k] = "?"}
        path == IF q = {} THEN base ELSE SubSeq(base, 1, Min(q) - 1)
        slashes == {k \in (Len(HttpScheme) + 1)..Len(path) : path[k] = "/"} IN
    IF slashes = {} THEN path \o <<"/">> \o url
    ELSE SubSeq(path, 1, Max(slashes)) \o url

\* mutant: the exception of line 73 is not caught
parse_playlist_uncaught(m, res, fr) ==
    IF m.kind = "raise" THEN [kind |-> "Raised"]
    ELSE IF m.kind = "media" THEN None
    ELSE LET width == SelectWidth(Resolutions(m), res) IN
         IF width = NoRes THEN None
         ELSE LET sel == SelectFramerate(Resolutions(m)[width], fr)
                  base_url == SliceTo(hls_source, rfind(hls_source, PlaylistM3u8)) IN
              [kind |-> "Playlist", uri |-> sel[2], resolution |-> width, framerate |-> sel[1],
               base_url |-> base_url, url |-> urljoin(base_url, sel[2])]

\* lines 70-124; uri is playlist_url, the URI url is joined from (line 116)
parse_playlist(m, res, fr) ==
    IF m.kind = "raise" THEN None
    ELSE IF m.kind = "media" THEN None
    ELSE LET width == SelectWidth(Resolutions(m), res) IN
         IF width = NoRes THEN None
         ELSE LET sel == SelectFramerate(Resolutions(m)[width], fr)
                  base_url == SliceTo(hls_source, rfind(hls_source, PlaylistM3u8)) IN
              [kind |-> "Playlist", uri |-> sel[2], resolution |-> width, framerate |-> sel[1],
               base_url |-> base_url, url |-> urljoin(base_url, sel[2])]

NotCalled == [kind |-> "NotCalled"]

\* "http://h/a/playlist.m3u8": a source whose file is named playlist.m3u8
PlaylistSource == <<"h", "t", "t", "p", ":", "/", "/", "h", "/", "a", "/", "p", "l", "a", "y", "l", "i", "s", "t", ".", "m", "3", "u", "8">>

SelectIdle ==
    /\ master = [kind |-> "media", playlists |-> <<>>]
    /\ resolution = 1080
    /\ framerate = 30
    /\ hls_source = PlaylistSource
    /\ playlist = NotCalled

SelectInit ==
    /\ master \in Masters
    /\ resolution \in TargetWidths
    /\ framerate \in TargetRates
    /\ hls_source = PlaylistSource
    /\ playlist = NotCalled

\* "http://h/a/playlist.m3u8?t=1": the same with a query
QuerySource == PlaylistSource \o <<"?", "t", "=", "1">>

\* "http://h/a/index.m3u8": a source whose file has another name
IndexSource == <<"h", "t", "t", "p", ":", "/", "/", "h", "/", "a", "/", "i", "n", "d", "e", "x", ".", "m", "3", "u", "8">>

\* "http://h/a/index.m3u8?t=1"
IndexQuerySource == IndexSource \o <<"?", "t", "=", "1">>

Sources == {PlaylistSource, QuerySource, IndexSource, IndexQuerySource}

\* the master manifests with at most one variant playlist
UrlMasters == {m \in Masters : Len(m.playlists) <= 1}

SelectUrlInit ==
    /\ master \in UrlMasters
    /\ resolution \in TargetWidths
    /\ framerate \in TargetRates
    /\ hls_source \in Sources
    /\ playlist = NotCalled

ParsePlaylist ==
    /\ playlist = NotCalled
    /\ playlist' = parse_playlist(master, resolution, framerate)
    /\ UNCHANGED <<master, resolution, framerate, hls_source>>

WatchStep ==
    \/ PollFail
    \/ NextSegment
    \/ Diff
    \/ Deliver
    \/ FetchFail
    \/ HandlerRaise
    \/ RetrySleep
    \/ Sleep
    \/ BackOff

\* interval: float = 1.0 (line 136), in tenths of a second
DefaultInterval == 10

\* _parse_segment_seq has not been called
NotParsed == -2

\* a Playlist as __init__ leaves it (lines 127-134), its loop at line 140
PlaylistInit ==
    [pc |-> "poll", media_playlist |-> <<>>, i |-> 1, last_seq |-> -1,
     attempt |-> 0, delivered |-> <<>>, faults |-> 0]

Sessions == {1, 2}

ParseIdle ==
    /\ seq_uri = <<>>
    /\ seq_result = NotParsed

PlaylistsIdle == playlists = [n \in Sessions |-> PlaylistInit]

OtherIdle ==
    /\ interval = DefaultInterval
    /\ ParseIdle
    /\ PlaylistsIdle

\* values of the interval argument: 1.0 s (the default), 2.0 s and 6.0 s
Intervals == {DefaultInterval, 20, 60}

\* mutant: the wait of line 171 is 5 times the interval argument
time_sleep_times5 ==
    CASE pc = "sleep" -> interval
      [] pc = "backoff" -> 5 * interval
      [] pc = "retry_sleep" -> RetryInterval
      [] OTHER -> 0

\* the argument of the time.sleep call the loop is in (lines 166, 168,
\* 171), in tenths of a second; 0 when it is in none
time_sleep ==
    CASE pc = "sleep" -> interval
      [] pc = "backoff" -> BackoffInterval
      [] pc = "retry_sleep" -> RetryInterval
      [] OTHER -> 0

Init == WatchInit /\ SelectIdle /\ OtherIdle

Next ==
    \/ (Poll /\ UNCHANGED <<select_vars, other_vars>>)
    \/ (PollInvalid /\ UNCHANGED <<select_vars, other_vars>>)
    \/ (WatchStep /\ UNCHANGED <<select_vars, other_vars>>)

Spec == Init /\ [][Next]_vars

NextGrow ==
    \/ (PollGrowing /\ UNCHANGED <<select_vars, other_vars>>)
    \/ (WatchStep /\ UNCHANGED <<select_vars, other_vars>>)

SpecGrow == Init /\ [][NextGrow]_vars

NextCancel ==
    \/ (PollGrowing /\ UNCHANGED <<select_vars, other_vars>>)
    \/ (WatchStep /\ UNCHANGED <<select_vars, other_vars>>)
    \/ (Cancel /\ UNCHANGED <<select_vars, other_vars>>)

SpecCancel == Init /\ [][NextCancel]_vars

NextSelect == ParsePlaylist /\ UNCHANGED <<watch_vars, other_vars>>

InitSelect == WatchInit /\ SelectInit /\ OtherIdle

SpecSelect == InitSelect /\ [][NextSelect]_vars

(***************************************************************************)
(* Two Playlist objects, each in its own call of watch_segments.  A        *)
(* Playlist is the record of its attributes and of its loop's locals;      *)
(* WatchSucc is the loop of lines 138-171 as a step function on it.        *)
(***************************************************************************)
PairUris == {SegmentUri(1), SegmentUri(2)}

PairManifests == {m \in SeqsUpTo(PairUris, MaxPairLen) : Increasing(m)}

\* lines 140-142: the Poll returns a manifest, or raises
PollSucc(p) ==
    {[p EXCEPT !.pc = "segment", !.media_playlist = m, !.i = 1] :
        m \in {e \in PairManifests : IsPrefix(p.media_playlist, e)}}
    \cup (IF p.faults < MaxPairFaults
          THEN {[p EXCEPT !.pc = "backoff", !.faults = @ + 1]}
          ELSE {})

\* lines 149-153
DiffSucc(p) ==
    LET seq == segment_seq[p.media_playlist[p.i]] IN
    IF IsNew(seq, p.last_seq)
    THEN [p EXCEPT !.last_seq = seq, !.attempt = 0, !.pc = "fetch"]
    ELSE [p EXCEPT !.i = @ + 1, !.pc = "segment"]

\* lines 163-166
AttemptFailedSucc(p) ==
    IF IsLastAttempt(p.attempt) THEN [p EXCEPT !.pc = "backoff", !.faults = @ + 1]
    ELSE [p EXCEPT !.pc = "retry_sleep", !.faults = @ + 1]

\* lines 158-166: the handler returns, the fetch fails, or the handler raises
FetchSucc(p) ==
    LET seq == segment_seq[p.media_playlist[p.i]] IN
    {[p EXCEPT !.delivered = Append(@, seq), !.i = @ + 1, !.pc = "segment"]}
    \cup (IF p.faults < MaxPairFaults
          THEN {AttemptFailedSucc(p),
                AttemptFailedSucc([p EXCEPT !.delivered = Append(@, seq)])}
          ELSE {})

\* the states one step of the loop can take the Playlist p to
WatchSucc(p) ==
    CASE p.pc = "poll" -> PollSucc(p)
      [] p.pc = "segment" ->
            {IF p.i > Len(p.media_playlist) THEN [p EXCEPT !.pc = "sleep"]
             ELSE [p EXCEPT !.pc = "parse_seq"]}
      [] p.pc = "parse_seq" -> {DiffSucc(p)}
      [] p.pc = "fetch" -> FetchSucc(p)
      [] p.pc = "retry_sleep" -> {[p EXCEPT !.pc = "fetch", !.attempt = @ + 1]}
      [] p.pc = "sleep" -> {[p EXCEPT !.pc = "poll"]}
      [] p.pc = "backoff" -> {[p EXCEPT !.pc = "poll"]}

\* mutant: last_seq is an attribute of the class, shared by every Playlist
StoreAttributes_class(ps, n, q) ==
    [k \in DOMAIN ps |-> IF k = n THEN q ELSE [ps[k] EXCEPT !.last_seq = q.last_seq]]

\* the step's assignments go to the attributes of self (lines 133-134, 153)
\* and to the locals of its own call
StoreAttributes(ps, n, q) == [ps EXCEPT ![n] = q]

\* one step of the loop of Playlist n
WatchSegments(n) ==
    \E q \in WatchSucc(playlists[n]) : playlists' = StoreAttributes(playlists, n, q)

NextPair ==
    \E n \in Sessions :
        WatchSegments(n) /\ UNCHANGED <<watch_vars, select_vars, interval, seq_uri, seq_result>>

SpecPair == Init /\ [][NextPair]_vars

(***************************************************************************)
(* Calls of _parse_segment_seq                                             *)
(***************************************************************************)
UriChars == {"s", "-", "1", "2", ".", "?"}

\* "segment-12345.ts", "chunk.ts", "a-b-c.ts", "a-7-c.ts" and
\* "http://cdn-3.x/seg-12.ts"
NamedUris ==
    {<<"s", "e", "g", "m", "e", "n", "t", "-", "1", "2", "3", "4", "5", ".", "t", "s">>,
     <<"c", "h", "u", "n", "k", ".", "t", "s">>,
     <<"a", "-", "b", "-", "c", ".", "t", "s">>,
     <<"a", "-", "7", "-", "c", ".", "t", "s">>,
     <<"h", "t", "t", "p", ":", "/", "/", "c", "d", "n", "-", "3", ".", "x", "/", "s", "e", "g", "-", "1", "2", ".", "t", "s">>}

\* the arguments: every string of at most MaxUriLen characters of UriChars,
\* and the named ones
SeqUris == UNION {[1..n -> UriChars] : n \in 0..MaxUriLen} \cup NamedUris

ParseInit ==
    /\ seq_uri \in SeqUris
    /\ seq_result = NotParsed

\* a call of _parse_segment_seq(seq_uri) returns
ParseSegmentSeq ==
    /\ seq_result = NotParsed
    /\ seq_result' = _parse_segment_seq(seq_uri)
    /\ seq_uri' = seq_uri

NextSeq == ParseSegmentSeq /\ UNCHANGED <<watch_vars, select_vars, interval, playlists>>

InitSeq == WatchInit /\ SelectIdle /\ interval = DefaultInterval /\ ParseInit /\ PlaylistsIdle

SpecSeq == InitSeq /\ [][NextSeq]_vars

InitUrl == WatchInit /\ SelectUrlInit /\ OtherIdle

SpecUrl == InitUrl /\ [][NextSelect]_vars

SpecLive == Init /\ [][NextGrow]_vars /\ WF_vars(NextGrow)

\* watch_segments called with any of the intervals
InitInterval ==
    /\ WatchInit
    /\ SelectIdle
    /\ interval \in Intervals
    /\ ParseIdle
    /\ PlaylistsIdle

SpecInterval == InitInterval /\ [][NextGrow]_vars


(***************************************************************************)
(* Properties of the watch loop                                            *)
(***************************************************************************)
SeqAt(m, k) == segment_seq[m[k]]

\* the handler invocations for sequence number s
Calls(s) == {k \in DOMAIN delivered : delivered[k].seq = s}

\* the handler invocations for s that returned
Completed(s) == {k \in Calls(s) : delivered[k].ok}

DeliveredSeqs == [k \in DOMAIN delivered |-> delivered[k].seq]

Manifest123 == <<SegmentUri(1), SegmentUri(2), SegmentUri(3)>>

\* C1 as stated: over a growing segment list every listed segment has been
\* delivered (its handler call has returned) exactly once, in increasing
\* sequence order, by the end of each cycle that reaches its pollInterval
\* sleep
C1_ExactlyOnce ==
    /\ \A j, k \in DOMAIN delivered :
          (j < k /\ delivered[j].ok /\ delivered[k].ok) => delivered[j].seq < delivered[k].seq
    /\ pc = "sleep" =>
          \A k \in DOMAIN media_playlist : Cardinality(Completed(SeqAt(media_playlist, k))) = 1

\* C1 amended: over a growing segment list the handler is invoked in
\* non-decreasing sequence order and returns at most once per segment; at
\* the end of a cycle that reaches its pollInterval sleep every listed
\* segment has been delivered exactly once, unless its last attempt failed,
\* and then it is never delivered; without failures the manifest
\* [segment-1, segment-2, segment-3] is delivered as 1, 2, 3 and last_seq
\* ends at 3
C1_DiffMonotonic ==
    /\ \A j, k \in DOMAIN delivered :
          j < k => /\ delivered[j].seq <= delivered[k].seq
                   /\ delivered[j].ok => delivered[j].seq < delivered[k].seq
    /\ pc = "sleep" =>
          \A k \in DOMAIN media_playlist :
             LET s == SeqAt(media_playlist, k) IN
             IF s \in abandoned THEN Completed(s) = {}
             ELSE Cardinality(Completed(s)) = 1
    /\ (pc = "sleep" /\ faults = 0 /\ media_playlist = Manifest123) =>
          (DeliveredSeqs = <<1, 2, 3>> /\ last_seq = 3)

C1_Witness ==
    /\ pc = "sleep"
    /\ faults = 0
    /\ media_playlist = Manifest123
    /\ DeliveredSeqs = <<1, 2, 3>>
    /\ last_seq = 3

\* C2: a segment whose sequence number is -1 or at most last_seq is not
\* fetched and not handed to the handler: the retry loop is entered only
\* for a segment that is new, and every handler invocation is for the
\* segment marked new last, never for a sequence number seen before it
C2_SeenNeverDelivered ==
    [][/\ (pc = "parse_seq" /\ pc' = "fetch") =>
             (SeqAt(media_playlist, i) # -1 /\ SeqAt(media_playlist, i) > last_seq)
       /\ (pc # "fetch" /\ pc' = "fetch") => pc \in {"parse_seq", "retry_sleep"}
       /\ delivered' # delivered =>
             LET e == delivered'[Len(delivered')] IN
             /\ pc = "fetch"
             /\ e.seq = SeqAt(media_playlist, i)
             /\ e.seq # -1
             /\ e.seq = last_seq
             /\ \A k \in DOMAIN delivered :
                   \/ delivered[k].seq < e.seq
                   \/ (delivered[k].seq = e.seq /\ ~delivered[k].ok /\ delivered[k].attempt < e.attempt)
      ]_vars

C2_Witness ==
    /\ pc = "sleep"
    /\ media_playlist = <<SegmentUri(1), SegmentUri(2)>>
    /\ DeliveredSeqs = <<1, 2>>
    /\ cycle_base = 1

\* C6: a segment gets at most 3 attempts with one retry wait between two
\* attempts; the handler call that returns ends the retry loop, and a fetch
\* that failed twice and succeeded at the third attempt has led to exactly
\* one handler invocation after exactly two retry waits
C6_BoundedRetry ==
    /\ [](/\ attempt \in 0..2
          /\ retry_waits \in 0..2
          /\ pc \in {"fetch", "retry_sleep"} =>
                /\ retry_waits = attempt
                /\ Cardinality(Calls(last_seq)) + fetch_fails
                      = attempt + (IF pc = "retry_sleep" THEN 1 ELSE 0)
          /\ \A k \in DOMAIN delivered :
                /\ Cardinality(Calls(delivered[k].seq)) <= 3
                /\ Cardinality(Completed(delivered[k].seq)) <= 1)
    /\ [][(delivered' # delivered /\ delivered'[Len(delivered')].ok) =>
             /\ pc' = "segment"
             /\ i' = i + 1
             /\ delivered'[Len(delivered')].attempt = retry_waits
             /\ Cardinality(Calls(last_seq)') = attempt + 1 - fetch_fails
             /\ UNCHANGED <<attempt, retry_waits>>
         ]_vars

C6_Witness ==
    /\ pc = "segment"
    /\ fetch_fails = 2
    /\ retry_waits = 2
    /\ delivered # <<>>
    /\ delivered[Len(delivered)] = [seq |-> last_seq, attempt |-> 2, ok |-> TRUE]
    /\ Cardinality(Calls(last_seq)) = 1

\* the third attempt for the current segment fails
Exhausted == pc = "fetch" /\ attempt = 2 /\ faults' = faults + 1

\* C7: when the third attempt fails the watcher leaves the cycle for the
\* back-off sleep (not the pollInterval sleep) without moving to a later
\* segment, and from the back-off sleep it goes to Poll only: nothing is
\* delivered in between and the loop does not end
C7_ExhaustionAbortsCycle ==
    [][/\ Exhausted => (pc' = "backoff" /\ UNCHANGED <<i, media_playlist, last_seq>>)
       /\ pc = "backoff" => (pc' = "poll" /\ UNCHANGED <<delivered, last_seq>>)
      ]_vars

C7_Witness ==
    /\ pc = "backoff"
    /\ last_seq \in abandoned
    /\ attempt = 2
    /\ \E k \in DOMAIN media_playlist :
          k > i /\ SeqAt(media_playlist, k) > last_seq

\* C8: no failure ends the loop: the watcher polls again and again, and a
\* segment found new when no failure is left to come is delivered
C8_NoTerminalState ==
    /\ []<>(pc = "poll")
    /\ \A s \in 1..MaxGrow :
          (pc = "parse_seq" /\ faults = MaxFaults /\ SeqAt(media_playlist, i) = s /\ s > last_seq)
             ~> (Completed(s) # {})

C8_Witness ==
    /\ pc = "poll"
    /\ faults = MaxFaults
    /\ \E a \in abandoned : \E k \in DOMAIN delivered : delivered[k].ok /\ delivered[k].seq > a

\* C9: after the cancellation signal no Poll is issued and no segment is
\* handed to the handler
C9_CancelStops ==
    [][signalled => (~(pc = "poll" /\ pc' # "poll") /\ delivered' = delivered)]_vars

(***************************************************************************)
(* Properties of parse_playlist                                            *)
(***************************************************************************)
Called == playlist # NotCalled

\* the variant set V of the master manifest: width -> frame rate -> uri
V == IF master.kind = "variant" THEN Resolutions(master) ELSE <<>>

UrisOf(bucket) == {bucket[k][2] : k \in DOMAIN bucket}

\* C3: when the target width is a key of the variant set, the Playlist
\* returned has that width and one of the URIs stored under it
C3_ExactMatch ==
    (Called /\ resolution \in DOMAIN V) =>
        /\ playlist.kind = "Playlist"
        /\ playlist.resolution = resolution
        /\ playlist.uri \in UrisOf(V[resolution])

C3_Witness ==
    /\ Called
    /\ resolution = 640
    /\ DOMAIN V = {640, 1280, 1920}
    /\ playlist.kind = "Playlist"
    /\ playlist.resolution = 640

\* C4: when the target width is no key of the variant set, the width chosen
\* is the greatest key below the target, and None is returned when there is
\* no key below it
C4_Fallback ==
    (Called /\ master.kind = "variant" /\ resolution \notin DOMAIN V) =>
        LET lower == {w \in DOMAIN V : w < resolution} IN
        IF lower = {} THEN playlist = None
        ELSE /\ playlist.kind = "Playlist"
             /\ playlist.resolution \in lower
             /\ \A w \in lower : w <= playlist.resolution

C4_Witness ==
    /\ Called
    /\ resolution = 1080
    /\ DOMAIN V = {640, 1280, 1920}
    /\ \A w \in DOMAIN V : DictKeys(V[w]) = {30}
    /\ playlist.kind = "Playlist"
    /\ playlist.resolution = 640

\* C5: within the bucket of the chosen width the target frame rate is used
\* when it is a key, else the first inserted entry; the URI returned is the
\* one stored under the reported width and frame rate
C5_FrameRate ==
    (Called /\ playlist.kind = "Playlist") =>
        LET bucket == V[playlist.resolution] IN
        /\ playlist.framerate \in DictKeys(bucket)
        /\ playlist.uri = DictGet(bucket, playlist.framerate)
        /\ IF framerate \in DictKeys(bucket)
           THEN playlist.framerate = framerate
           ELSE playlist.framerate = bucket[1][1] /\ playlist.uri = bucket[1][2]

C5_Witness ==
    /\ Called
    /\ playlist.kind = "Playlist"
    /\ framerate = 25
    /\ Len(V[playlist.resolution]) = 2
    /\ playlist.framerate = 60
    /\ V[playlist.resolution][1][1] = 60

\* C10: parse_playlist returns a Playlist or None and never raises; it
\* returns None exactly when the constructor raised, the manifest is not a
\* variant manifest, no variant carries a resolution, or no width is equal
\* to or below the target
C10_NeverRaises ==
    Called =>
        /\ playlist.kind \in {"Playlist", "None"}
        /\ playlist = None <=>
              \/ master.kind = "raise"
              \/ master.kind = "media"
              \/ \A k \in DOMAIN master.playlists : master.playlists[k].res = NoRes
              \/ \A w \in DOMAIN V : w > resolution

C10_Witness ==
    /\ Called
    /\ master.kind = "raise"
    /\ playlist = None

\* the position in manifest m of the first segment whose sequence number is s
PosOf(m, s) ==
    CHOOSE p \in DOMAIN m : SeqAt(m, p) = s /\ \A q \in 1..(p - 1) : SeqAt(m, q) # s

\* the handler invocations of the current cycle
CycleCalls == (cycle_base + 1)..Len(delivered)

\* C12 as stated: within one cycle the handler is invoked once per new
\* segment, for segments of the cycle's manifest in manifest order, and the
\* fetch of the next new segment begins only after the handler call of the
\* one before it has returned
C12_InOrderSynchronous ==
    /\ [](\A k \in CycleCalls :
            LET e == delivered[k] IN
            /\ \E p \in DOMAIN media_playlist : SeqAt(media_playlist, p) = e.seq
            /\ PosOf(media_playlist, e.seq) <= i
            /\ \A j \in CycleCalls :
                  j < k => PosOf(media_playlist, delivered[j].seq) < PosOf(media_playlist, e.seq))
    /\ [][(pc = "parse_seq" /\ pc' = "fetch") =>
             (Len(delivered) > cycle_base => delivered[Len(delivered)].ok)]_vars

\* C13: last_seq becomes the sequence number of a segment in the step that
\* marks it new, before its first fetch attempt, and no outcome of the
\* attempts changes it; so a segment whose 3 attempts failed stays at or
\* below last_seq, and no later cycle fetches it or hands it to the
\* handler, even while the manifest still lists it
C13_AdvanceBeforeFetch ==
    /\ [][/\ (pc = "parse_seq" /\ pc' = "fetch") =>
                /\ last_seq' = SeqAt(media_playlist, i)
                /\ attempt' = 0
                /\ fetch_fails' = 0
                /\ delivered' = delivered
          /\ last_seq' # last_seq => (pc = "parse_seq" /\ pc' = "fetch")
          /\ \A s \in abandoned :
                /\ ~(pc' = "fetch" /\ SeqAt(media_playlist', i') = s)
                /\ Calls(s)' = Calls(s)
         ]_vars
    /\ [](\A s \in abandoned : s <= last_seq /\ Completed(s) = {})

C13_Witness ==
    /\ pc = "sleep"
    /\ abandoned = {1}
    /\ last_seq = 1
    /\ media_playlist = <<SegmentUri(1)>>
    /\ delivered = <<>>

\* C14 as stated: when the Poll fetch fails, the parser raises or the
\* fetched text is not a media manifest, the cycle delivers no segment,
\* leaves last_seq unchanged and waits the back-off, not the pollInterval
C14_FailedPollBacksOff ==
    /\ [][(pc = "poll" /\ poll_text' \in {"raise", "invalid"}) =>
             UNCHANGED <<last_seq, delivered>>]_vars
    /\ [](poll_text \in {"raise", "invalid"} =>
             (pc # "sleep" /\ Len(delivered) = cycle_base))

\* C14 amended: when the Poll fetch fails or the parser raises, the cycle
\* delivers no segment, leaves last_seq unchanged, waits the back-off and
\* resumes at Poll; when the fetched text is not a media manifest the parser
\* does not raise, the cycle has no segment to examine, delivers nothing,
\* leaves last_seq unchanged and waits the pollInterval, never the back-off
C14_PollFailure ==
    /\ [][/\ (pc = "poll" /\ poll_text' \in {"raise", "invalid"}) =>
                UNCHANGED <<last_seq, delivered>>
          /\ (pc = "poll" /\ poll_text' = "raise") => pc' = "backoff"
          /\ (pc = "poll" /\ poll_text' = "invalid") => (pc' = "segment" /\ media_playlist' = <<>>)
          /\ (pc = "backoff" /\ pc' # pc) => (pc' = "poll" /\ UNCHANGED <<last_seq, delivered>>)
         ]_vars
    /\ [](/\ poll_text = "raise" => pc \in {"backoff", "poll"}
          /\ poll_text = "invalid" => pc \in {"segment", "sleep", "poll"}
          /\ poll_text \in {"raise", "invalid"} => Len(delivered) = cycle_base)

C14_Witness ==
    /\ pc = "poll"
    /\ poll_text = "raise"
    /\ faults = 1
    /\ last_seq = 1
    /\ DeliveredSeqs = <<1>>

\* C15: a Poll is issued only at the start or after one wait; a cycle whose
\* loop over the manifest ended without error waits the pollInterval once,
\* after its last delivery, and Polls next; a cycle that ended in an error
\* (failed Poll, third failed attempt) waits the back-off once, never the
\* pollInterval as well, and Polls next; nothing is delivered during a wait
C15_OneWaitPerCycle ==
    /\ [][/\ (pc' = "poll" /\ pc # "poll") => pc \in {"sleep", "backoff"}
          /\ (pc = "poll" /\ pc' # "poll") => pc' \in {"segment", "backoff"}
          /\ (pc' = "sleep" /\ pc # "sleep") =>
                (pc = "segment" /\ i > Len(media_playlist) /\ delivered' = delivered)
          /\ (pc' = "backoff" /\ pc # "backoff") =>
                \/ pc = "poll"
                \/ (pc = "fetch" /\ attempt = 2 /\ last_seq \in abandoned')
          /\ (pc \in {"sleep", "backoff"} /\ pc' # pc) =>
                (pc' = "poll" /\ delivered' = delivered /\ last_seq' = last_seq)
         ]_vars
    /\ [](/\ pc = "sleep" => time_sleep = interval
          /\ pc = "backoff" => time_sleep = BackoffInterval)

C15_Witness ==
    /\ pc = "backoff"
    /\ interval = 20
    /\ DeliveredSeqs = <<1>>
    /\ abandoned = {2}
    /\ media_playlist = <<SegmentUri(1), SegmentUri(2), SegmentUri(3)>>

\* C16 as stated: for every interval the wait after a failed Poll is 5
\* times the interval and longer than it
C16_BackoffFiveTimes ==
    (pc = "backoff" /\ poll_text = "raise") =>
        (time_sleep = 5 * interval /\ time_sleep > interval)

\* C16 amended: the wait after a failed Poll is 5 seconds whatever the
\* interval is; it is 5 times the interval only for the default interval of
\* 1 second, and longer than the interval only for an interval below 5
\* seconds
C16_BackoffFixed ==
    (pc = "backoff" /\ poll_text = "raise") =>
        /\ time_sleep = BackoffInterval
        /\ (time_sleep = 5 * interval) <=> (interval = DefaultInterval)
        /\ (time_sleep > interval) <=> (interval < BackoffInterval)

C16_Witness ==
    /\ pc = "backoff"
    /\ poll_text = "raise"
    /\ interval = 60
    /\ time_sleep = 50

\* the URL src without the final segment of its path: the query is dropped
\* and so is what follows the last "/" of the path
WithoutFinalSegment(src) ==
    LET q == {k \in 1..Len(src) : src[k] = "?"}
        path == IF q = {} THEN src ELSE SubSeq(src, 1, Min(q) - 1)
        slashes == {k \in 1..Len(path) : path[k] = "/"} IN
    SubSeq(path, 1, Max(slashes))

\* C17 as stated: for every source URL the base URL of the returned playlist
\* is the source URL without its final path segment, whatever the master
\* manifest's file is named, and the playlist URL is the selected variant
\* URI resolved against that base URL
C17_BaseUrl ==
    playlist.kind = "Playlist" =>
        /\ playlist.base_url = WithoutFinalSegment(hls_source)
        /\ playlist.url = urljoin(playlist.base_url, playlist.uri)

\* the path component of a URI: without the query, and for an http URL
\* without scheme and host
PathOf(uri) ==
    LET q == {k \in 1..Len(uri) : uri[k] = "?"}
        noq == IF q = {} THEN uri ELSE SubSeq(uri, 1, Min(q) - 1)
        n == Len(HttpScheme) IN
    IF Len(noq) >= n /\ SubSeq(noq, 1, n) = HttpScheme
    THEN LET slashes == {k \in (n + 1)..Len(noq) : noq[k] = "/"} IN
         IF slashes = {} THEN <<>> ELSE SubSeq(noq, Min(slashes), Len(noq))
    ELSE noq

\* what follows the first "-" of uri, up to the next "-" or "."
SecondToken(uri) ==
    LET h == Min({k \in 1..Len(uri) : uri[k] = "-"})
        stops == {k \in (h + 1)..Len(uri) : uri[k] \in {"-", "."}} IN
    SubSeq(uri, h + 1, IF stops = {} THEN Len(uri) ELSE Min(stops) - 1)

\* C18 as stated: the result is what splitting the path component of the
\* URI on hyphens, taking the second token, stripping the extension and
\* parsing it as an integer gives, and -1 on any failure
C18_PathComponent ==
    seq_result # NotParsed =>
        LET path == PathOf(seq_uri) IN
        IF \E k \in 1..Len(path) : path[k] = "-"
        THEN IF IntParses(SecondToken(path)) THEN seq_result = StrToInt(SecondToken(path))
             ELSE seq_result = -1
        ELSE seq_result = -1

\* C18 amended: the result is what splitting the whole URI string on
\* hyphens, taking the second piece, cutting it at its first "." and parsing
\* it as an integer gives, and -1 when there is no hyphen or the piece is no
\* integer; no call raises; "segment-12345.ts" gives 12345, "chunk.ts"
\* gives -1, "a-b-c.ts" gives -1 and "a-7-c.ts" gives 7
C18_WholeUri ==
    seq_result # NotParsed =>
        /\ seq_result \in Nat \cup {-1}
        /\ IF \E k \in 1..Len(seq_uri) : seq_uri[k] = "-"
           THEN IF IntParses(SecondToken(seq_uri)) THEN seq_result = StrToInt(SecondToken(seq_uri))
                ELSE seq_result = -1
           ELSE seq_result = -1
        /\ seq_uri = <<"s", "e", "g", "m", "e", "n", "t", "-", "1", "2", "3", "4", "5", ".", "t", "s">> => seq_result = 12345
        /\ seq_uri = <<"c", "h", "u", "n", "k", ".", "t", "s">> => seq_result = -1
        /\ seq_uri = <<"a", "-", "b", "-", "c", ".", "t", "s">> => seq_result = -1
        /\ seq_uri = <<"a", "-", "7", "-", "c", ".", "t", "s">> => seq_result = 7
        /\ seq_uri = <<"h", "t", "t", "p", ":", "/", "/", "c", "d", "n", "-", "3", ".", "x", "/", "s", "e", "g", "-", "1", "2", ".", "t", "s">> => seq_result = 3

C18_Witness ==
    /\ seq_uri = <<"s", "e", "g", "m", "e", "n", "t", "-", "1", "2", "3", "4", "5", ".", "t", "s">>
    /\ seq_result = 12345

\* C19 as stated: for any manifests and any fetch or handler failures the
\* sequence numbers the handler is invoked with are strictly increasing over
\* the run, so no sequence number is handed to the handler twice
C19_StrictlyIncreasing ==
    /\ \A j, k \in DOMAIN delivered : j < k => delivered[j].seq < delivered[k].seq
    /\ \A k \in DOMAIN delivered : Cardinality(Calls(delivered[k].seq)) <= 1

\* the cycle was aborted by the third failed attempt for the segment at
\* position i, and t is the sequence number of a segment listed after it
\* and higher than its sequence number
AbortedBefore(t) ==
    /\ pc = "backoff"
    /\ poll_text = "media"
    /\ last_seq \in abandoned
    /\ t > last_seq
    /\ \E k \in (i + 1)..Len(media_playlist) : SeqAt(media_playlist, k) = t

C11_SessionsIndependent ==
    [][\A n \in Sessions :
          playlists'[n] # playlists[n] =>
             /\ playlists'[n] \in WatchSucc(playlists[n])
             /\ \A k \in Sessions \ {n} : playlists'[k] = playlists[k]]_vars

C11_Witness ==
    /\ playlists[1].last_seq = 2
    /\ playlists[1].delivered = <<2>>
    /\ playlists[1].pc = "sleep"
    /\ playlists[2].pc = "backoff"
    /\ playlists[2].last_seq = 1
    /\ playlists[2].delivered = <<>>
    /\ playlists[2].attempt = 2

====
